---- MODULE Spec2Model ----
(***************************************************************************)
(* Model of the CoinDesk article watcher (src/index.js).                   *)
(* A timer drives checkForNew; each call picks the next API key, fetches   *)
(* the latest articles, and schedules a webhook delivery for every article *)
(* newer than the watermark lastTimestamp.                                 *)
(***************************************************************************)
EXTENDS Integers, Sequences, FiniteSets, TLC

\* ---- bounds of the model -------------------------------------------------
MaxKeys == 2        \* pool sizes 1..MaxKeys
MaxFetches == 3     \* number of fetchLatest calls explored
MaxList == 2        \* longest article list a fetch returns
NumArticles == 2    \* articles the remote source may ever list
MaxTitle == 2       \* longest title handed to sendWebhook
MaxSlack == 8       \* body lengths from TextLimit - MaxSlack to TextLimit + 1

\* ---- articles and fetch outcomes -----------------------------------------
\* CREATED_ON of article id: 1, 2, 2, 3, 3, ... (later articles may share a
\* timestamp)
CREATED_ON(id) == (id + 2) \div 2

Articles == {[id |-> i, ts |-> CREATED_ON(i)] : i \in 1..NumArticles}

OldestFirst(l) == \A i, j \in DOMAIN l : i < j => l[i].id < l[j].id

\* res.data.Data || [] : any list of distinct articles; checkForNew sorts the
\* list before it looks at it, so one order per set is enumerated, the one
\* the sort has to reverse
ArticleLists ==
    UNION {{l \in [1..n -> Articles] : OldestFirst(l)} : n \in 0..MaxList}

\* rejections of axios.get: no response at all, HTTP 429, another status
NoError == [response |-> FALSE, status |-> 0]
FetchErrors == {[response |-> FALSE, status |-> 0],
                [response |-> TRUE, status |-> 429],
                [response |-> TRUE, status |-> 500]}

Max(a, b) == IF a >= b THEN a ELSE b

Range(s) == {s[i] : i \in DOMAIN s}

\* highest timestamp in a set of articles, 0 for the empty set
MaxTsOf(S) ==
    IF S = {} THEN 0
    ELSE CHOOSE t \in {a.ts : a \in S} : \A a \in S : t >= a.ts

VARIABLES
    SEND_ON_STARTUP,  \* configuration toggle
    keysLength,       \* COINDESK_KEYS.length
    keyIndex,         \* cursor into COINDESK_KEYS
    lastTimestamp,    \* the watermark
    pc,               \* position of the bootstrap block
    running,          \* the process is alive
    timerArmed,       \* setInterval(checkForNew, ...) has been called
    inflight,         \* numbers of the fetchLatest calls awaiting axios.get
    keyLog,           \* key index sent with each fetchLatest call, in order
    deliveries,       \* sendWebhook calls, in order of scheduling
    lastCycle,        \* history: the fetch completed most recently
    remembered,       \* history: at most one article set, processed by some
                      \* fetch since the watermark last changed
    startupList,      \* history: articles of the list the startup fetch of
                      \* the bootstrap block returned
    seenMax,          \* history: highest timestamp any processed fetch
                      \* has returned
    usableConfigured, \* history: COINDESK_KEY held at least one non-blank key
    exitCode,         \* exit code, once the process has stopped
    webhookArticle,   \* text fields of the article given to sendWebhook
    payloadText       \* payload.text as posted, <<>> before the call

vars == <<SEND_ON_STARTUP, keysLength, keyIndex, lastTimestamp, pc, running,
          timerArmed, inflight, keyLog, deliveries, lastCycle, remembered,
          startupList, seenMax, usableConfigured, exitCode, webhookArticle,
          payloadText>>

\* set when the module is loaded, never written afterwards
configVars == <<SEND_ON_STARTUP, keysLength, usableConfigured>>

\* written by sendWebhook only
textVars == <<webhookArticle, payloadText>>

\* ---- pure parts of the code ----------------------------------------------
\* keyIndex = (keyIndex + 1) % COINDESK_KEYS.length
NextKeyIndexNoWrap(k, n) == k + 1
NextKeyIndexSkipLast(k, n) == IF k + 1 >= n - 1 THEN 0 ELSE k + 1
NextKeyIndex(k, n) == (k + 1) % n

\* articles.sort((a, b) => b.CREATED_ON - a.CREATED_ON): stable, newest first
RECURSIVE InsertDesc(_, _)
InsertDesc(sorted, a) ==
    IF sorted = <<>> THEN <<a>>
    ELSE IF Head(sorted).ts >= a.ts
         THEN <<Head(sorted)>> \o InsertDesc(Tail(sorted), a)
         ELSE <<a>> \o sorted

RECURSIVE InsertAsc(_, _)
InsertAsc(sorted, a) ==
    IF sorted = <<>> THEN <<a>>
    ELSE IF Head(sorted).ts <= a.ts
         THEN <<Head(sorted)>> \o InsertAsc(Tail(sorted), a)
         ELSE <<a>> \o sorted

RECURSIVE SortOldestFirst(_)
SortOldestFirst(l) ==
    IF l = <<>> THEN <<>>
    ELSE InsertAsc(SortOldestFirst(SubSeq(l, 1, Len(l) - 1)), l[Len(l)])

RECURSIVE SortNewestFirst(_)
SortNewestFirst(l) ==
    IF l = <<>> THEN <<>>
    ELSE InsertDesc(SortNewestFirst(SubSeq(l, 1, Len(l) - 1)), l[Len(l)])

\* article.CREATED_ON > lastTimestamp
IsNewOrTie(article, w) == article.ts >= w
IsNew(article, w) == article.ts > w

\* lastTimestamp = Math.max(lastTimestamp, article.CREATED_ON)
RaiseWatermarkForgotten(w, article) == w
RaiseWatermark(w, article) == Max(w, article.ts)

\* body of the forEach callback; st = [w: watermark, sent: articles handed to
\* sendWebhook so far, each with the watermark it was compared against]
ForEachBodyUnguarded(st, article) ==
    [w |-> article.ts,
     sent |-> Append(st.sent, [article |-> article, wAt |-> st.w])]
ForEachBody(st, article) ==
    IF IsNew(article, st.w)
    THEN [w |-> RaiseWatermark(st.w, article),
          sent |-> Append(st.sent, [article |-> article, wAt |-> st.w])]
    ELSE st

RECURSIVE ForEach(_, _)
ForEach(sorted, st) ==
    IF sorted = <<>> THEN st
    ELSE ForEach(Tail(sorted), ForEachBody(st, Head(sorted)))

\* the try block of checkForNew after the fetch has resolved
Detect(articles, w) ==
    ForEach(SortNewestFirst(articles), [w |-> w, sent |-> <<>>])

\* the catch block of checkForNew
CatchPathAlwaysError(e) == "genericError"
CatchPath(e) ==
    IF e.response /\ e.status = 429 THEN "rateLimitWarn" ELSE "genericError"

\* Math.max(...initial.map(a => a.CREATED_ON)), guarded by initial.length
RECURSIVE MaxCreatedOn(_)
MaxCreatedOn(l) ==
    IF Len(l) = 1 THEN l[1].ts ELSE Max(l[1].ts, MaxCreatedOn(Tail(l)))

InitialWatermarkFirst(initial, w) ==
    IF Len(initial) > 0 THEN initial[1].ts ELSE w
InitialWatermarkUnset(initial, w) == w
InitialWatermark(initial, w) ==
    IF Len(initial) > 0 THEN MaxCreatedOn(initial) ELSE w

\* ---- initial state --------------------------------------------------------
NoCycle ==
    [kind |-> "none", n |-> 0, outcome |-> "none", articles |-> <<>>,
     err |-> NoError, wBefore |-> 0, wAfter |-> 0, sent |-> <<>>,
     log |-> "none", repeat |-> FALSE]

\* process.env.COINDESK_KEY: unset, or a string seen as its comma-separated
\* entries, each empty, blank or a key
RawKeyInputs ==
    {[set |-> FALSE, entries |-> <<>>]} \cup
    {[set |-> TRUE, entries |-> e] :
        e \in UNION {[1..n -> {"", " ", "k"}] : n \in 1..MaxKeys}}

\* !rawKeys : undefined or the empty string
Falsy(raw) == ~raw.set \/ raw.entries = <<"">>

\* k.trim()
Trim(k) == IF k = " " THEN "" ELSE k

NonEmpty(k) == k # ""

\* rawKeys.split(',').map(k => k.trim()).filter(k => k)
COINDESK_KEYS(raw) ==
    SelectSeq([i \in DOMAIN raw.entries |-> Trim(raw.entries[i])], NonEmpty)

EmptyArticle == [TITLE |-> <<>>, SUBTITLE |-> <<>>, BODY |-> <<>>]

\* the module has been loaded: either process.exit(1) was called for want of
\* a key, or the cursor stands at a random key and the bootstrap block is
\* about to run
Loaded(raw) ==
    /\ usableConfigured = (raw.set /\ \E i \in DOMAIN raw.entries :
                                        raw.entries[i] = "k")
    /\ IF Falsy(raw) \/ Len(COINDESK_KEYS(raw)) = 0
       THEN /\ keysLength = 0
            /\ keyIndex = 0
            /\ pc = "exited"
            /\ running = FALSE
            /\ exitCode = 1
       ELSE /\ keysLength = Len(COINDESK_KEYS(raw))
            /\ keyIndex \in 0..(keysLength - 1)
            /\ pc = "start"
            /\ running = TRUE
            /\ exitCode = 0
    /\ lastTimestamp = 0
    /\ timerArmed = FALSE
    /\ inflight = {}
    /\ keyLog = <<>>
    /\ deliveries = <<>>
    /\ lastCycle = NoCycle
    /\ remembered = {}
    /\ startupList = {}
    /\ seenMax = 0

Init ==
    /\ SEND_ON_STARTUP \in BOOLEAN
    /\ \E raw \in RawKeyInputs : Loaded(raw)
    /\ webhookArticle = EmptyArticle
    /\ payloadText = <<>>

\* ---- fetchLatest ----------------------------------------------------------
\* synchronous prologue of fetchLatest: pick the key, advance the cursor,
\* issue the request
fetchLatest ==
    /\ keyLog' = Append(keyLog, keyIndex)
    /\ keyIndex' = NextKeyIndex(keyIndex, keysLength)
    /\ inflight' = inflight \cup {Len(keyLog) + 1}

\* history bookkeeping for a fetch that resolved with articles: a change of
\* the watermark forgets the remembered set; the set just processed may be
\* remembered in its place, so that every earlier fetch since the last change
\* is the remembered one in some behaviour
Processed(articles) ==
    /\ remembered' \in IF lastTimestamp' # lastTimestamp
                       THEN {{Range(articles)}}
                       ELSE {remembered, {Range(articles)}}
    /\ seenMax' = Max(seenMax, MaxTsOf(Range(articles)))

\* ---- checkForNew ----------------------------------------------------------
NewDeliveries(sent, n) ==
    [i \in 1..Len(sent) |->
        [article |-> sent[i].article, wAt |-> sent[i].wAt, cycle |-> n,
         status |-> "pending"]]

\* the fetch of call n resolved with articles: sort, detect, schedule
checkForNewResolved(n, articles) ==
    LET r == Detect(articles, lastTimestamp) IN
    /\ lastTimestamp' = r.w
    /\ deliveries' = deliveries \o NewDeliveries(r.sent, n)
    /\ lastCycle' =
          [kind |-> "cycle", n |-> n, outcome |-> "ok", articles |-> articles,
           err |-> NoError, wBefore |-> lastTimestamp,
           wAfter |-> lastTimestamp',
           sent |-> [i \in 1..Len(r.sent) |-> r.sent[i].article],
           log |-> "none", repeat |-> Range(articles) \in remembered]
    /\ Processed(articles)
    /\ UNCHANGED startupList

\* the fetch of call n rejected with e: the catch block only logs
checkForNewRejected(n, e) ==
    /\ UNCHANGED <<lastTimestamp, deliveries, remembered, startupList,
                   seenMax>>
    /\ lastCycle' =
          [kind |-> "cycle", n |-> n, outcome |-> "failed", articles |-> <<>>,
           err |-> e, wBefore |-> lastTimestamp, wAfter |-> lastTimestamp',
           sent |-> <<>>, log |-> CatchPath(e), repeat |-> FALSE]

\* ---- bootstrap ------------------------------------------------------------
\* the async block runs up to its first await
Bootstrap ==
    /\ running /\ pc = "start"
    /\ fetchLatest
    /\ pc' = IF SEND_ON_STARTUP THEN "awaitCheckForNew" ELSE "awaitFetchLatest"
    /\ UNCHANGED <<configVars, textVars, exitCode, lastTimestamp, running,
                   timerArmed, deliveries, lastCycle, remembered, startupList,
                   seenMax>>

\* SEND_ON_STARTUP false: await fetchLatest() resolved
BootFetchResolved(initial) ==
    /\ running /\ pc = "awaitFetchLatest" /\ 1 \in inflight
    /\ inflight' = inflight \ {1}
    /\ lastTimestamp' = InitialWatermark(initial, lastTimestamp)
    /\ lastCycle' =
          [kind |-> "startup", n |-> 1, outcome |-> "ok", articles |-> initial,
           err |-> NoError, wBefore |-> lastTimestamp,
           wAfter |-> lastTimestamp', sent |-> <<>>, log |-> "none",
           repeat |-> FALSE]
    /\ Processed(initial)
    /\ startupList' = Range(initial)
    /\ timerArmed' = TRUE
    /\ pc' = "armed"
    /\ UNCHANGED <<configVars, textVars, exitCode, keyIndex, running, keyLog,
                   deliveries>>

\* SEND_ON_STARTUP false: await fetchLatest() rejected; nothing catches it, the
\* block's promise rejects and setInterval is never reached. The runtime ends
\* the process on the unhandled rejection with code 1, or only warns and the
\* process ends with code 0 for want of anything left to do
BootFetchRejected(e) ==
    /\ running /\ pc = "awaitFetchLatest" /\ 1 \in inflight
    /\ inflight' = inflight \ {1}
    /\ UNCHANGED <<configVars, textVars, keyIndex, lastTimestamp,
                   timerArmed, keyLog, deliveries, remembered, startupList,
                   seenMax>>
    /\ lastCycle' =
          [kind |-> "startup", n |-> 1, outcome |-> "failed",
           articles |-> <<>>, err |-> e, wBefore |-> lastTimestamp,
           wAfter |-> lastTimestamp', sent |-> <<>>, log |-> "uncaught",
           repeat |-> FALSE]
    /\ pc' = "rejected"
    /\ running' = FALSE
    /\ exitCode' \in {0, 1}

\* after await checkForNew() the bootstrap block arms the timer
AfterCheckForNew(n) ==
    IF pc = "awaitCheckForNew" /\ n = 1
    THEN pc' = "armed" /\ timerArmed' = TRUE
    ELSE UNCHANGED <<pc, timerArmed>>

\* ---- timer and network events --------------------------------------------
\* the interval timer fires: checkForNew runs up to its await
TickAwaited ==
    /\ running /\ timerArmed /\ inflight = {}
    /\ Len(keyLog) < MaxFetches
    /\ fetchLatest
    /\ UNCHANGED <<configVars, textVars, exitCode, lastTimestamp, pc, running,
                   timerArmed, deliveries, lastCycle, remembered, startupList,
                   seenMax>>
Tick ==
    /\ running /\ timerArmed
    /\ Len(keyLog) < MaxFetches
    /\ fetchLatest
    /\ UNCHANGED <<configVars, textVars, exitCode, lastTimestamp, pc, running,
                   timerArmed, deliveries, lastCycle, remembered, startupList,
                   seenMax>>

IsCheckForNewCall(n) == pc # "awaitFetchLatest" \/ n # 1

FetchResolved(n, articles) ==
    /\ running /\ n \in inflight /\ IsCheckForNewCall(n)
    /\ inflight' = inflight \ {n}
    /\ checkForNewResolved(n, articles)
    /\ AfterCheckForNew(n)
    /\ UNCHANGED <<configVars, textVars, exitCode, keyIndex, running, keyLog>>

FetchRejected(n, e) ==
    /\ running /\ n \in inflight /\ IsCheckForNewCall(n)
    /\ inflight' = inflight \ {n}
    /\ checkForNewRejected(n, e)
    /\ AfterCheckForNew(n)
    /\ UNCHANGED <<configVars, textVars, exitCode, keyIndex, running, keyLog>>

\* ---- sendWebhook completions ---------------------------------------------
\* axios.post resolved: 'Sent webhook for' is logged
DeliveryResolved(i) ==
    /\ running /\ i \in DOMAIN deliveries /\ deliveries[i].status = "pending"
    /\ deliveries' = [deliveries EXCEPT ![i].status = "sent"]
    /\ UNCHANGED <<configVars, textVars, exitCode, keyIndex, lastTimestamp, pc,
                   running, timerArmed, inflight, keyLog, lastCycle,
                   remembered, startupList,
                   seenMax>>

\* axios.post rejected: .catch(console.error) logs the error
DeliveryRejectedUncaught(i) ==
    /\ running /\ i \in DOMAIN deliveries /\ deliveries[i].status = "pending"
    /\ deliveries' = [deliveries EXCEPT ![i].status = "failed"]
    /\ running' = FALSE
    /\ UNCHANGED <<configVars, textVars, exitCode, keyIndex, lastTimestamp, pc,
                   timerArmed, inflight, keyLog, lastCycle, remembered, startupList,
                   seenMax>>
DeliveryRejectedRollback(i) ==
    /\ running /\ i \in DOMAIN deliveries /\ deliveries[i].status = "pending"
    /\ deliveries' = [deliveries EXCEPT ![i].status = "failed"]
    /\ lastTimestamp' = deliveries[i].wAt
    /\ UNCHANGED <<configVars, textVars, exitCode, keyIndex, pc, running,
                   timerArmed, inflight, keyLog, lastCycle, remembered,
                   startupList, seenMax>>
DeliveryRejected(i) ==
    /\ running /\ i \in DOMAIN deliveries /\ deliveries[i].status = "pending"
    /\ deliveries' = [deliveries EXCEPT ![i].status = "failed"]
    /\ UNCHANGED <<configVars, textVars, exitCode, keyIndex, lastTimestamp, pc,
                   running, timerArmed, inflight, keyLog, lastCycle,
                   remembered, startupList,
                   seenMax>>

Next ==
    \/ Bootstrap
    \/ \E initial \in ArticleLists : BootFetchResolved(initial)
    \/ \E e \in FetchErrors : BootFetchRejected(e)
    \/ Tick
    \/ \E n \in inflight, articles \in ArticleLists : FetchResolved(n, articles)
    \/ \E n \in inflight, e \in FetchErrors : FetchRejected(n, e)
    \/ \E i \in DOMAIN deliveries : DeliveryResolved(i)
    \/ \E i \in DOMAIN deliveries : DeliveryRejected(i)

Spec == Init /\ [][Next]_vars

\* ---- sendWebhook: the text of the payload ---------------------------------
\* text.length > 1600, text.slice(0, 1600)
TextLimit == 1600

\* a string of n copies of character c
Repeat(c, n) == [i \in 1..n |-> c]

\* subtitle ? `${title} — ${subtitle}: ${body}` : `${title} — ${body}`
Text(a) ==
    IF a.SUBTITLE # <<>>
    THEN a.TITLE \o <<" ", "emdash", " ">> \o a.SUBTITLE \o <<":", " ">>
             \o a.BODY
    ELSE a.TITLE \o <<" ", "emdash", " ">> \o a.BODY

\* text.length > 1600 ? text.slice(0, 1600) + '…' : text
TruncateAtLimit(text) ==
    IF Len(text) >= TextLimit
    THEN SubSeq(text, 1, TextLimit) \o <<"ellipsis">>
    ELSE text
Truncate(text) ==
    IF Len(text) > TextLimit
    THEN SubSeq(text, 1, TextLimit) \o <<"ellipsis">>
    ELSE text

\* articles whose combined text falls short of, meets and exceeds the limit
WebhookArticles ==
    {[TITLE |-> Repeat("t", t), SUBTITLE |-> Repeat("s", s),
      BODY |-> Repeat("b", b)] :
        t \in 0..MaxTitle, s \in 0..1,
        b \in {0} \cup ((TextLimit - MaxSlack)..(TextLimit + 1))}

\* sendWebhook up to axios.post: the payload carries the truncated text
sendWebhookText ==
    /\ running /\ payloadText = <<>>
    /\ payloadText' = Truncate(Text(webhookArticle))
    /\ UNCHANGED <<configVars, webhookArticle, exitCode, keyIndex,
                   lastTimestamp, pc, running, timerArmed, inflight, keyLog,
                   deliveries, lastCycle, remembered, startupList, seenMax>>

\* a loaded process about to hand one article to sendWebhook
InitText ==
    /\ SEND_ON_STARTUP = FALSE
    /\ Loaded([set |-> TRUE, entries |-> <<"k">>])
    /\ webhookArticle \in WebhookArticles
    /\ payloadText = <<>>

NextText == sendWebhookText

SpecText == InitText /\ [][NextText]_vars

TypeOK ==
    /\ SEND_ON_STARTUP \in BOOLEAN
    /\ keysLength \in 0..MaxKeys
    /\ keyIndex \in Nat
    /\ lastTimestamp \in Nat
    /\ pc \in {"exited", "start", "awaitCheckForNew", "awaitFetchLatest",
               "armed", "rejected"}
    /\ inflight \subseteq 1..MaxFetches

\* ---- properties -----------------------------------------------------------
OkCycle == lastCycle.kind = "cycle" /\ lastCycle.outcome = "ok"

FailedCycle == lastCycle.kind = "cycle" /\ lastCycle.outcome = "failed"

\* a step that completes a fetch replaces lastCycle by the record of that fetch
Completes == lastCycle'.n # lastCycle.n

ScheduledBy(n) == {d \in DOMAIN deliveries : deliveries[d].cycle = n}

\* C1 (as claimed): in every cycle whose fetch succeeds, an article of the
\* fetched list is handed to sendWebhook if and only if its timestamp exceeds
\* the watermark held at the start of the cycle.
C1_DeliveredIffNewerThanSnapshot ==
    OkCycle =>
        \A a \in Range(lastCycle.articles) :
            (a \in Range(lastCycle.sent)) <=> (a.ts > lastCycle.wBefore)

\* C2: no step ever lowers the watermark lastTimestamp.
C2_WatermarkMonotone == [][lastTimestamp' >= lastTimestamp]_vars

\* C2 witness: a cycle raised the watermark and afterwards the response of a
\* cycle issued earlier, carrying only older articles, was processed.
C2_Witness ==
    /\ OkCycle
    /\ lastCycle.articles # <<>>
    /\ \A a \in Range(lastCycle.articles) : a.ts < lastCycle.wBefore
    /\ \E d \in DOMAIN deliveries : deliveries[d].cycle > lastCycle.n

\* C3: a cycle that fetches exactly the set of articles an earlier fetch
\* returned, the watermark not having changed since that earlier fetch was
\* processed, schedules no delivery and leaves the watermark unchanged.
C3_RefetchIsIdempotent ==
    (OkCycle /\ lastCycle.repeat)
        => ( /\ lastCycle.sent = <<>>
             /\ lastCycle.wAfter = lastCycle.wBefore
             /\ ScheduledBy(lastCycle.n) = {} )

\* C3 witness: a cycle delivered an article and a later cycle fetched the same
\* non-empty set again with the watermark unchanged in between.
C3_Witness ==
    /\ OkCycle /\ lastCycle.repeat
    /\ lastCycle.articles # <<>>
    /\ \E d \in DOMAIN deliveries :
           deliveries[d].article \in Range(lastCycle.articles)

\* C4: a step in which the fetch of a checkForNew cycle fails schedules no
\* delivery and leaves the watermark unchanged; a 429 response is logged as
\* the rate-limit warning, every other failure as the generic error.
C4_FailedFetchLeavesState ==
    [][ (Completes /\ lastCycle'.kind = "cycle" /\ lastCycle'.outcome = "failed")
        => ( /\ lastTimestamp' = lastTimestamp
             /\ deliveries' = deliveries
             /\ (lastCycle'.log = "rateLimitWarn")
                    <=> (lastCycle'.err.response /\ lastCycle'.err.status = 429)
             /\ (lastCycle'.log = "genericError")
                    <=> ~(lastCycle'.err.response /\ lastCycle'.err.status = 429)
             /\ remembered' = remembered )
      ]_vars

\* C4 witness: with a raised watermark and a delivery pending, a cycle failed
\* with 429.
C4_Witness ==
    /\ FailedCycle
    /\ lastCycle.err.status = 429
    /\ lastCycle.wBefore > 0
    /\ \E d \in DOMAIN deliveries : deliveries[d].status = "pending"

\* C5 (as claimed): after any failing call to fetchLatest the process keeps
\* running and the periodic timer is armed.
C5_FetchFailureNeverFatal ==
    lastCycle.outcome = "failed" => (running /\ timerArmed)

\* C6: the watermark covers every article handed to sendWebhook from the
\* moment it is scheduled, whatever becomes of the delivery, and no article is
\* handed to sendWebhook twice.
C6_AtMostOnce ==
    \A i \in DOMAIN deliveries :
        /\ lastTimestamp >= deliveries[i].article.ts
        /\ \A j \in DOMAIN deliveries :
               deliveries[j].article = deliveries[i].article => j = i

\* C6 witness: a delivery failed and a fetch processed after the cycle that
\* scheduled it returned the same article again.
C6_Witness ==
    /\ OkCycle
    /\ \E d \in DOMAIN deliveries :
        /\ deliveries[d].status = "failed"
        /\ deliveries[d].cycle # lastCycle.n
        /\ deliveries[d].article \in Range(lastCycle.articles)

DeliveryFails ==
    \E i \in DOMAIN deliveries :
        /\ deliveries[i].status = "pending"
        /\ i \in DOMAIN deliveries'
        /\ deliveries'[i].status = "failed"

\* C7: a rejected sendWebhook changes nothing but the status of that one
\* delivery: the process stays alive, the timer stays armed, the fetches in
\* flight and the other deliveries are untouched; once the timer is armed the
\* process never stops.
C7_DeliveryFailureIsolated ==
    /\ [](timerArmed => running)
    /\ [][ DeliveryFails
           => ( /\ running'
                /\ timerArmed' = timerArmed
                /\ pc' = pc
                /\ inflight' = inflight
                /\ lastCycle' = lastCycle
                /\ Len(deliveries') = Len(deliveries)
                /\ \A k \in DOMAIN deliveries :
                       deliveries[k].status # "pending"
                           => deliveries'[k] = deliveries[k] )
         ]_vars

\* C7 witness: a delivery failed, the timer is armed, the process runs, and a
\* cycle completed after the one that scheduled the failed delivery ran
\* detection and scheduled another delivery.
C7_Witness ==
    /\ running /\ timerArmed
    /\ OkCycle
    /\ ScheduledBy(lastCycle.n) # {}
    /\ \E d \in DOMAIN deliveries :
        /\ deliveries[d].status = "failed"
        /\ deliveries[d].cycle # lastCycle.n

\* C8: an article whose timestamp equals the watermark it is compared with is
\* never handed to sendWebhook, and a fetched article whose timestamp equals
\* the watermark at the start of the cycle is skipped; a list holding nothing
\* newer than the watermark leaves it unchanged.
C8_TiesLose ==
    /\ \A d \in DOMAIN deliveries :
           deliveries[d].article.ts # deliveries[d].wAt
    /\ OkCycle =>
        /\ \A a \in Range(lastCycle.articles) :
               a.ts = lastCycle.wBefore => a \notin Range(lastCycle.sent)
        /\ (\A a \in Range(lastCycle.articles) : a.ts <= lastCycle.wBefore)
               => lastCycle.wAfter = lastCycle.wBefore

\* C8 witness: a cycle started with a raised watermark and fetched an article
\* carrying exactly that timestamp.
C8_Witness ==
    /\ OkCycle
    /\ lastCycle.wBefore > 0
    /\ \E a \in Range(lastCycle.articles) : a.ts = lastCycle.wBefore

Uses(k, i, j) == Cardinality({c \in i..j : keyLog[c] = k})

\* C9: over any K consecutive calls of fetchLatest every key of a pool of P
\* keys is used floor(K/P) or ceil(K/P) times, and exactly once when K = P.
C9_RotationBalanced ==
    \A i, j \in DOMAIN keyLog :
        i <= j =>
            LET K == j - i + 1
                P == keysLength
            IN \A k \in 0..(P - 1) :
                /\ Uses(k, i, j) >= K \div P
                /\ Uses(k, i, j) <= (K + P - 1) \div P
                /\ K = P => Uses(k, i, j) = 1

\* C9 witness: a pool of at least two keys whose cursor, started off zero, has
\* wrapped.
C9_Witness ==
    /\ keysLength >= 2
    /\ Len(keyLog) > keysLength
    /\ keyLog[1] # 0

\* C10: the cursor of a loaded pool stays within the pool; a step that calls fetchLatest moves
\* it one position forward modulo the pool length, and no other step moves it.
C10_CursorAdvancesOnEveryCall ==
    /\ [](pc # "exited" => (keyIndex >= 0 /\ keyIndex < keysLength))
    /\ [][ IF Len(keyLog') = Len(keyLog) + 1
           THEN /\ keyLog'[Len(keyLog')] = keyIndex
                /\ keyIndex' = (keyIndex + 1) % keysLength
           ELSE keyIndex' = keyIndex ]_vars

\* C10 witness: the cursor has wrapped while a call failed, another succeeded
\* and scheduled a delivery, and an earlier call is still outstanding.
C10_Witness ==
    /\ keysLength >= 2
    /\ Len(keyLog) > keysLength
    /\ lastCycle.outcome = "failed"
    /\ deliveries # <<>>
    /\ \E n \in inflight : n < lastCycle.n

Dispatched == {deliveries[d].article : d \in DOMAIN deliveries}

\* C11: with SEND_ON_STARTUP false the startup fetch sets the watermark to the
\* highest timestamp of its list (0 for an empty list) and schedules nothing,
\* and no article of that list is ever handed to sendWebhook; with
\* SEND_ON_STARTUP true the first call is a checkForNew cycle that compares
\* against watermark 0 and schedules a delivery as soon as it lists an article.
C11_StartupToggle ==
    /\ (lastCycle.kind = "startup" /\ lastCycle.outcome = "ok")
        => ( /\ ~SEND_ON_STARTUP
             /\ lastCycle.wAfter = MaxTsOf(Range(lastCycle.articles))
             /\ lastTimestamp = lastCycle.wAfter
             /\ deliveries = <<>> )
    /\ \A a \in startupList : a \notin Dispatched
    /\ SEND_ON_STARTUP => startupList = {}
    /\ (SEND_ON_STARTUP /\ OkCycle /\ lastCycle.n = 1)
        => ( /\ lastCycle.wBefore = 0
             /\ lastCycle.articles # <<>>
                    => (lastCycle.sent # <<>> /\ ScheduledBy(1) # {}) )

\* C11 witness: started without sending, a later cycle fetched an article of
\* the startup list again together with a newer one, which it delivered.
C11_Witness ==
    /\ ~SEND_ON_STARTUP
    /\ OkCycle
    /\ Range(lastCycle.articles) \cap startupList # {}
    /\ ScheduledBy(lastCycle.n) # {}

Outstanding ==
    \/ inflight # {}
    \/ \E d \in DOMAIN deliveries : deliveries[d].status = "pending"

\* C12 (as claimed): while any network call is outstanding the timer can fire
\* the next cycle.
C12_OutstandingCallNeverBlocksTimer ==
    (running /\ Outstanding /\ Len(keyLog) < MaxFetches) => ENABLED Tick

\* C12 (amended): once the bootstrap block has armed the timer, an outstanding
\* fetch or delivery never keeps the timer from firing the next cycle; while
\* the call the bootstrap block awaits is outstanding the timer cannot fire.
C12_OutstandingCallAfterArming ==
    /\ (running /\ pc = "armed" /\ Outstanding /\ Len(keyLog) < MaxFetches)
        => ENABLED Tick
    /\ (pc \in {"awaitFetchLatest", "awaitCheckForNew"})
        => (1 \in inflight /\ ~ENABLED Tick)

\* C12 witness: with the fetch of an earlier cycle still outstanding and a
\* delivery pending, a later cycle fetched, ran detection and scheduled a
\* delivery.
C12_Witness ==
    /\ OkCycle
    /\ \E n \in inflight : n < lastCycle.n
    /\ ScheduledBy(lastCycle.n) # {}
    /\ \E d \in DOMAIN deliveries :
        /\ deliveries[d].status = "pending"
        /\ deliveries[d].cycle # lastCycle.n

DeliveryCompletes ==
    \E i \in DOMAIN deliveries :
        /\ deliveries[i].status = "pending"
        /\ i \in DOMAIN deliveries'
        /\ deliveries'[i].status # "pending"

CallsFetchLatest == Len(keyLog') = Len(keyLog) + 1

\* C13 (as claimed): the watermark changes only in a step of the detection
\* loop of checkForNew, the cursor only in the prologue of fetchLatest, and a
\* delivery completion changes neither.
C13_OnlyLoopAndPrologueWrite ==
    [][ /\ lastTimestamp' # lastTimestamp
            => (Completes /\ lastCycle'.kind = "cycle")
        /\ keyIndex' # keyIndex => CallsFetchLatest
        /\ DeliveryCompletes
            => (lastTimestamp' = lastTimestamp /\ keyIndex' = keyIndex)
      ]_vars

\* C13 (amended): the watermark changes only in a step that processes a
\* resolved fetch, be it the detection loop of checkForNew or the startup
\* assignment of the bootstrap block; the cursor changes only in the prologue
\* of fetchLatest; a delivery completion changes neither.
C13_OnlySynchronousStepsWrite ==
    [][ /\ lastTimestamp' # lastTimestamp
            => (Completes /\ lastCycle'.outcome = "ok")
        /\ keyIndex' # keyIndex => CallsFetchLatest
        /\ DeliveryCompletes
            => (lastTimestamp' = lastTimestamp /\ keyIndex' = keyIndex)
      ]_vars

\* C13 witness: one delivery succeeded and another failed after the watermark
\* had been raised and the cursor had moved.
C13_Witness ==
    /\ lastTimestamp > 0
    /\ Len(keyLog) >= 2
    /\ \E d, e \in DOMAIN deliveries :
        /\ deliveries[d].status = "sent"
        /\ deliveries[e].status = "failed"

\* C14 (as claimed): the watermark equals the highest timestamp among the
\* articles handed to sendWebhook so far, or its initial value 0.
C14_WatermarkIsMaxDispatched == lastTimestamp = MaxTsOf(Dispatched)

\* C14 (amended): the watermark equals the highest timestamp among the
\* articles handed to sendWebhook so far and the articles of the startup list.
C14_WatermarkIsMaxDispatchedOrStartup ==
    lastTimestamp = MaxTsOf(Dispatched \cup startupList)

\* C14 witness: the startup list set the watermark and a later cycle
\* dispatched a newer article.
C14_Witness ==
    /\ startupList # {}
    /\ Dispatched # {}
    /\ lastTimestamp > MaxTsOf(startupList)

\* C15 (as claimed): without a usable key the process has exited with code 1
\* before any fetch and before the timer is armed; with one it never stops.
C15_ExitsOnlyWithoutCredential ==
    /\ ~usableConfigured
        => (~running /\ exitCode = 1 /\ keyLog = <<>> /\ ~timerArmed)
    /\ usableConfigured => running

\* C16: a combined text longer than 1600 characters is posted as its first
\* 1600 characters followed by one marker character; a combined text of at
\* most 1600 characters is posted unchanged.
C16_TextTruncation ==
    payloadText # <<>> =>
        LET text == Text(webhookArticle) IN
        IF Len(text) > 1600
        THEN /\ Len(payloadText) = 1601
             /\ \A i \in 1..1600 : payloadText[i] = text[i]
             /\ payloadText[1601] = "ellipsis"
        ELSE payloadText = text

\* C16 witness: a text with a subtitle, longer than the limit, has been
\* posted.
C16_Witness ==
    /\ payloadText # <<>>
    /\ webhookArticle.SUBTITLE # <<>>
    /\ Len(Text(webhookArticle)) > 1600

\* C17: a step that processes a resolved fetch leaves the watermark at the
\* larger of its previous value and the highest timestamp of the fetched list;
\* the watermark always equals the highest timestamp any processed fetch has
\* returned, 0 if none has.
C17_WatermarkIsMaxSeen ==
    /\ [](lastTimestamp = seenMax)
    /\ [][ (Completes /\ lastCycle'.outcome = "ok")
           => lastTimestamp' =
                  Max(lastTimestamp, MaxTsOf(Range(lastCycle'.articles)))
         ]_vars

\* C17 witness: after a startup list, a cycle fetched two articles and raised
\* the watermark.
C17_Witness ==
    /\ startupList # {}
    /\ OkCycle
    /\ Len(lastCycle.articles) >= 2
    /\ lastCycle.wAfter > lastCycle.wBefore

\* C18: a cycle hands at most one article to sendWebhook, and that article
\* carries the highest timestamp of the fetched list.
C18_AtMostOneDeliveryPerCycle ==
    OkCycle =>
        /\ Len(lastCycle.sent) <= 1
        /\ Cardinality(ScheduledBy(lastCycle.n)) <= 1
        /\ lastCycle.sent # <<>>
               => lastCycle.sent[1].ts = MaxTsOf(Range(lastCycle.articles))

\* C18 witness: a cycle fetched two articles with different timestamps, both
\* newer than the watermark it started with, and delivered one.
C18_Witness ==
    /\ OkCycle
    /\ Len(lastCycle.sent) = 1
    /\ \E a, b \in Range(lastCycle.articles) :
        /\ a.ts > b.ts
        /\ b.ts > lastCycle.wBefore

\* C19: the timestamps of the scheduled deliveries are strictly increasing in
\* the order of scheduling.
C19_DeliveriesStrictlyIncreasing ==
    \A i, j \in DOMAIN deliveries :
        i < j => deliveries[i].article.ts < deliveries[j].article.ts

\* C19 witness: two deliveries, the later one scheduled by a cycle that was
\* issued before the cycle that scheduled the earlier one.
C19_Witness ==
    /\ Len(deliveries) >= 2
    /\ deliveries[1].cycle > deliveries[2].cycle
====
